---- MODULE Spec2Model ----
(***************************************************************************)
(* Model of server.js: the POST /api/contact endpoint (rate limiter,       *)
(* validation sequence, HTML escaping, mail dispatch).                     *)
(*                                                                         *)
(* Strings are kept exactly but run-length encoded: a string is a sequence *)
(* of runs [w, n], the word w (a tuple of one-character strings) repeated  *)
(* n times.  This keeps the real length limits (200, 30, 100, 254, 5000)   *)
(* checkable.                                                              *)
(***************************************************************************)
EXTENDS Integers, Sequences, FiniteSets, TLC

----------------------------------------------------------------------------
(* Strings *)

Rep(c, n) == <<[w |-> <<c>>, n |-> n]>>

Lit(chars) == IF chars = <<>> THEN <<>> ELSE <<[w |-> chars, n |-> 1]>>

RECURSIVE StrLen(_)
StrLen(s) == IF s = <<>> THEN 0 ELSE Len(s[1].w) * s[1].n + StrLen(Tail(s))

\* the characters String.prototype.trim removes (those the model's inputs use)
IsSpace(c) == c \in {" ", "\n", "\t"}

BlankRun(r) == \A i \in 1..Len(r.w) : IsSpace(r.w[i])

RECURSIVE TrimWordStart(_)
TrimWordStart(w) == IF w # <<>> /\ IsSpace(w[1]) THEN TrimWordStart(Tail(w)) ELSE w

RECURSIVE TrimWordEnd(_)
TrimWordEnd(w) ==
    IF w # <<>> /\ IsSpace(w[Len(w)]) THEN TrimWordEnd(SubSeq(w, 1, Len(w) - 1)) ELSE w

Unroll(r) == [w |-> r.w, n |-> r.n - 1]

RECURSIVE TrimStart(_)
TrimStart(s) ==
    IF s = <<>> THEN <<>>
    ELSE IF BlankRun(s[1]) THEN TrimStart(Tail(s))
    ELSE IF s[1].n = 1 THEN <<[w |-> TrimWordStart(s[1].w), n |-> 1]>> \o Tail(s)
    ELSE IF IsSpace(s[1].w[1]) THEN TrimStart(<<[w |-> s[1].w, n |-> 1], Unroll(s[1])>> \o Tail(s))
    ELSE s

RECURSIVE TrimEnd(_)
TrimEnd(s) ==
    IF s = <<>> THEN <<>>
    ELSE LET r == s[Len(s)]
             front == SubSeq(s, 1, Len(s) - 1)
         IN IF BlankRun(r) THEN TrimEnd(front)
            ELSE IF r.n = 1 THEN front \o <<[w |-> TrimWordEnd(r.w), n |-> 1]>>
            ELSE IF IsSpace(r.w[Len(r.w)]) THEN TrimEnd(front \o <<Unroll(r), [w |-> r.w, n |-> 1]>>)
            ELSE s

\* String.prototype.trim
Trim(s) == TrimEnd(TrimStart(s))

RECURSIVE ReplaceWord(_, _, _)
ReplaceWord(w, c, repl) ==
    IF w = <<>> THEN <<>>
    ELSE (IF w[1] = c THEN repl ELSE <<w[1]>>) \o ReplaceWord(Tail(w), c, repl)

\* str.replace(/c/g, repl) for a one-character pattern c
ReplaceAll(s, c, repl) == [i \in 1..Len(s) |-> [w |-> ReplaceWord(s[i].w, c, repl), n |-> s[i].n]]

AMP == <<"&", "a", "m", "p", ";">>
LT == <<"&", "l", "t", ";">>
GT == <<"&", "g", "t", ";">>
QUOT == <<"&", "q", "u", "o", "t", ";">>
BR == <<"<", "b", "r", ">">>

escNoLt(str) ==
    ReplaceAll(ReplaceAll(ReplaceAll(str, "&", AMP), ">", GT), "\"", QUOT)

esc(str) ==
    ReplaceAll(ReplaceAll(ReplaceAll(ReplaceAll(str, "&", AMP), "<", LT), ">", GT), "\"", QUOT)

----------------------------------------------------------------------------
(* JSON values of the request body.  s is the value's String() conversion; *)
(* prim is FALSE for an object whose conversion to a primitive throws      *)
(* (an object with an own, non-callable toString, such as {"toString":1}). *)

JUndef == [t |-> "undefined", s |-> Lit(<<"u","n","d","e","f","i","n","e","d">>), prim |-> TRUE]
JNull == [t |-> "null", s |-> Lit(<<"n","u","l","l">>), prim |-> TRUE]
JStr(s) == [t |-> "string", s |-> s, prim |-> TRUE]
JNum(s) == [t |-> "number", s |-> s, prim |-> TRUE]
JArr(s) == [t |-> "array", s |-> s, prim |-> TRUE]
JBadObj == [t |-> "object", s |-> <<>>, prim |-> FALSE]

\* v == null
IsNullish(v) == v.t \in {"undefined", "null"}

\* JavaScript truthiness
Truthy(v) ==
    /\ ~IsNullish(v)
    /\ ~(v.t = "string" /\ StrLen(v.s) = 0)
    /\ ~(v.t = "number" /\ v.s = Lit(<<"0">>))

\* String(v) throws a TypeError
StringThrows(v) == ~v.prim

\* v.trim() throws a TypeError: only strings have trim
TrimThrows(v) == v.t # "string"

----------------------------------------------------------------------------
(* Validation *)

RequiredFields == <<"name", "phone", "caseType">>
LimitFields == <<"name", "phone", "caseType", "email", "message">>

NameMax == 200
PhoneMax == 30
CaseTypeMax == 100
EmailMax == 254
MessageMax == 5000

limitsLoose == [name |-> NameMax + 1, phone |-> PhoneMax + 1, caseType |-> CaseTypeMax + 1,
                email |-> EmailMax + 1, message |-> MessageMax + 1]

limits == [name |-> NameMax, phone |-> PhoneMax, caseType |-> CaseTypeMax,
           email |-> EmailMax, message |-> MessageMax]

\* the filter predicate of the presence check
IsMissing(v) == IsNullish(v) \/ StrLen(Trim(v.s)) = 0

\* the filter callback throws on some required entry
PresenceThrows(b) == \E i \in 1..3 : ~IsNullish(b[RequiredFields[i]]) /\ StringThrows(b[RequiredFields[i]])

IsMissingField(b, k) == IsMissing(b[k])

missing(b) == SelectSeq(RequiredFields, LAMBDA k : IsMissingField(b, k))

\* the length loop from field i on: "pass", "throw", or "long" with the field
RECURSIVE LengthLoop(_, _)
LengthLoop(b, i) ==
    IF i > Len(LimitFields) THEN [kind |-> "pass", field |-> "", max |-> 0]
    ELSE LET f == LimitFields[i]
             v == b[f]
         IN IF ~Truthy(v) THEN LengthLoop(b, i + 1)
            ELSE IF StringThrows(v) THEN [kind |-> "throw", field |-> f, max |-> 0]
            ELSE IF StrLen(v.s) > limits[f] THEN [kind |-> "long", field |-> f, max |-> limits[f]]
            ELSE LengthLoop(b, i + 1)

PhoneChars == {"0", "1", "2", "3", "4", "5", "6", "7", "8", "9",
               " ", "\n", "\t", "-", "+", "(", ")", "."}

\* the pattern without its anchors: one allowed character is enough
phoneTestUnanchored(v) ==
    \E i \in 1..Len(v.s) : \E j \in 1..Len(v.s[i].w) : v.s[i].w[j] \in PhoneChars

\* /^[\d\s\-+().]+$/.test(phone), phone converted by String()
PhoneTest(v) ==
    /\ StrLen(v.s) >= 1
    /\ \A i \in 1..Len(v.s) : \A j \in 1..Len(v.s[i].w) : v.s[i].w[j] \in PhoneChars

----------------------------------------------------------------------------
(* Rendering *)

RECURSIVE Expand(_)
Expand(s) ==
    IF s = <<>> THEN <<>>
    ELSE IF s[1].n = 1 THEN s[1].w \o Expand(Tail(s))
    ELSE s[1].w \o Expand(<<[w |-> s[1].w, n |-> s[1].n - 1]>> \o Tail(s))

\* lang === 'he'
isHe(lang) == lang.t = "string" /\ StrLen(lang.s) = 2 /\ Expand(lang.s) = <<"h", "e">>

\* one of the .trim() calls of the safe* lines throws
RenderThrows(b) ==
    \/ TrimThrows(b.name)
    \/ TrimThrows(b.phone)
    \/ TrimThrows(b.caseType)
    \/ (Truthy(b.email) /\ TrimThrows(b.email))
    \/ (~IsNullish(b.message) /\ TrimThrows(b.message))

safeName(b) == esc(Trim(b.name.s))
safePhone(b) == esc(Trim(b.phone.s))
safeCaseType(b) == esc(Trim(b.caseType.s))
safeEmail(b) == IF Truthy(b.email) THEN esc(Trim(b.email.s)) ELSE <<>>
safeMessage(b) ==
    ReplaceAll(esc(Trim(IF IsNullish(b.message) THEN <<>> ELSE b.message.s)), "\n", BR)

DefaultUser == "pardooren@gmail.com"
Recipient == "pardooren@gmail.com"

\* process.env.X is truthy
EnvSet(e) == e # <<>> /\ e[1] # ""

\* process.env.SMTP_USER || 'pardooren@gmail.com'
SenderOf(user) == IF EnvSet(user) THEN user[1] ELSE DefaultUser

\* the message handed to transporter.sendMail; html keeps the interpolated
\* parts of the template, the email row only when safeEmail is non-empty
MailOf(b, user) ==
    [from |-> SenderOf(user),
     to |-> Recipient,
     subject |-> [he |-> isHe(b.lang), name |-> safeName(b), caseType |-> safeCaseType(b)],
     html |-> [dir |-> IF isHe(b.lang) THEN "rtl" ELSE "ltr",
               labels |-> IF isHe(b.lang) THEN "he" ELSE "en",
               name |-> safeName(b),
               phone |-> safePhone(b),
               caseType |-> safeCaseType(b),
               emailRow |-> safeEmail(b) # <<>>,
               email |-> safeEmail(b),
               message |-> safeMessage(b)]]

----------------------------------------------------------------------------
(* Responses and the synchronous part of the handler *)

Resp(status, ok, error, field, max, fields) ==
    [status |-> status, ok |-> ok, error |-> error, field |-> field, max |-> max, fields |-> fields]

NoResp == Resp(0, FALSE, "", "", 0, <<>>)
RespOk == Resp(200, TRUE, "", "", 0, <<>>)
RespMissing(fields) == Resp(400, FALSE, "Missing required fields", "", 0, fields)
RespTooLong(field, max) == Resp(400, FALSE, "exceeds maximum length of", field, max, <<>>)
RespPhone == Resp(400, FALSE, "Invalid phone format", "", 0, <<>>)
RespNotConfigured == Resp(503, FALSE, "Email not configured", "", 0, <<>>)
RespSendFailed == Resp(500, FALSE, "Failed to send email", "", 0, <<>>)
RespLimited == Resp(429, FALSE, "Too many requests, please try again later", "", 0, <<>>)

NoLog == [level |-> "", text |-> "", detail |-> ""]

Respond(r, lg) == [kind |-> "respond", resp |-> r, mail |-> <<>>, log |-> lg]
Throw == [kind |-> "throw", resp |-> NoResp, mail |-> <<>>, log |-> NoLog]
Send(m) == [kind |-> "send", resp |-> NoResp, mail |-> <<m>>, log |-> NoLog]

\* the handler from its entry to its first response, throw, or the sendMail call
contactHandler(b, tr, user) ==
    IF PresenceThrows(b) THEN Throw
    ELSE IF missing(b) # <<>> THEN Respond(RespMissing(missing(b)), NoLog)
    ELSE LET lc == LengthLoop(b, 1)
         IN IF lc.kind = "throw" THEN Throw
            ELSE IF lc.kind = "long" THEN Respond(RespTooLong(lc.field, lc.max), NoLog)
            ELSE IF ~PhoneTest(b.phone) THEN Respond(RespPhone, NoLog)
            ELSE IF ~tr
                 THEN Respond(RespNotConfigured,
                              [level |-> "warn", text |-> "SMTP_PASS not configured - email skipped", detail |-> ""])
            ELSE IF RenderThrows(b) THEN Throw
            ELSE Send(MailOf(b, user))

----------------------------------------------------------------------------
(* Rate limiter: express-rate-limit with its default in-memory store, as   *)
(* configured by rateLimit({windowMs, max}).  Each client key has a hit    *)
(* counter and a reset time; a hit at or after the reset time starts a new *)
(* window of windowMs; every hit is counted, the rejected ones too.        *)

windowMs == 15 * 60 * 1000
max == 5

\* an increment that loses the hit of a running window
incrementLost(h, rt, t) ==
    IF rt <= t THEN [totalHits |-> 1, resetTime |-> t + windowMs]
    ELSE [totalHits |-> h, resetTime |-> rt]

\* the store's increment for a key whose entry is [hits, resetTime]
increment(h, rt, t) ==
    IF rt <= t THEN [totalHits |-> 1, resetTime |-> t + windowMs]
    ELSE [totalHits |-> h + 1, resetTime |-> rt]

limitReachedOffByOne(totalHits) == totalHits > max + 1

\* the limiter answers 429 instead of calling the handler
limitReached(totalHits) == totalHits > max

----------------------------------------------------------------------------
(* Bounds and inputs *)

MaxRequests == 3
MaxBurst == 7
MaxInFlight == 2
MaxSuspended == 1
MaxTicks == 2

\* the clock advances in half windows
TickMs == windowMs \div 2

Clients == {"ip1", "ip2"}

TransportErrors == {"ECONNREFUSED", "Invalid login"}

Chars(cs) == JStr(Lit(cs))

NameValues ==
    {JUndef, JStr(Rep(" ", 3)), JArr(<<>>), JBadObj, JNum(Lit(<<"7">>)),
     Chars(<<"D", "a", "n">>),
     Chars(<<"<", "s", "c", "r", "i", "p", "t", ">">>),
     JStr(Rep("a", NameMax)), JStr(Rep("a", NameMax + 1))}

PhoneValues ==
    {JNull, JBadObj, JNum(Lit(<<"5", "5", "5">>)),
     Chars(<<"+", "1", " ", "(", "5", ")", " ", "2", "-", "4">>),
     Chars(<<"a", "b", "c", "-", "1", "2", "3">>),
     JStr(Rep("5", PhoneMax + 1))}

CaseTypeValues ==
    {JUndef, JStr(<<>>), Chars(<<"T", "a", "x", "&", "\"">>),
     JStr(Rep("x", CaseTypeMax + 1))}

EmailValues ==
    {JUndef, JStr(<<>>), JBadObj, Chars(<<"a", "@", "b">>),
     JStr(Rep("e", EmailMax + 1))}

MessageValues ==
    {JUndef, JNum(Lit(<<"4", "2">>)),
     Chars(<<" ", "a", "&", "b", "\n", "<", "b", "r", ">", "\n">>),
     JStr(Rep("m", MessageMax + 1))}

LangValues == {JUndef, Chars(<<"h", "e">>)}

\* every combination of the field values above
AllBodies ==
    [name : NameValues, phone : PhoneValues, caseType : CaseTypeValues,
     email : EmailValues, message : MessageValues, lang : LangValues]

ValidPhone == Chars(<<"+", "1", " ", "(", "5", ")", " ", "2", "-", "4">>)

BodyPlain ==
    [name |-> Chars(<<"D", "a", "n">>), phone |-> ValidPhone,
     caseType |-> Chars(<<"T", "a", "x", "&", "\"">>),
     email |-> JUndef, message |-> JUndef, lang |-> JUndef]

BodyBlankName == [BodyPlain EXCEPT !.name = JStr(Rep(" ", 3))]
BodyNumericName == [BodyPlain EXCEPT !.name = JNum(Lit(<<"7">>))]

\* the bodies the requests of the server specification carry
ServerBodies == {BodyPlain, BodyBlankName, BodyNumericName}

\* the bodies of the burst specification
BurstBodies == {BodyPlain}

----------------------------------------------------------------------------
(* The server *)

VARIABLES
    smtpPass,     \* process.env.SMTP_PASS: <<>> when unset, else <<value>>
    smtpUser,     \* process.env.SMTP_USER
    transporter,  \* TRUE: a transport object; FALSE: null
    now,          \* the clock, in ms
    hits,         \* rate-limit store: hit counter of each client key
    resetTime,    \* rate-limit store: end of each client key's window
    nreq,         \* requests that have arrived
    inflight,     \* requests suspended at await transporter.sendMail, oldest first
    last,         \* the most recent request that was answered or threw
    log,          \* the most recent console.warn / console.error line
    rejected,     \* TRUE while a rejection of a handler's promise is unhandled
    alive,        \* the process is running
    passed        \* history: for each client, the arrival times of its requests
                  \* of the trailing window that the limiter let through

vars == <<smtpPass, smtpUser, transporter, now, hits, resetTime, nreq, inflight,
          last, log, rejected, alive, passed>>

NoBody ==
    [name |-> JUndef, phone |-> JUndef, caseType |-> JUndef,
     email |-> JUndef, message |-> JUndef, lang |-> JUndef]

NoLast ==
    [client |-> "", body |-> NoBody, via |-> "", resp |-> NoResp,
     ctype |-> "", mail |-> <<>>, calls |-> 0]

\* a transport object even without the credential
alwaysTransport(pass) == TRUE

\* const transporter = process.env.SMTP_PASS ? nodemailer.createTransport(...) : null
createTransporter(pass) == EnvSet(pass)

Start ==
    /\ transporter = createTransporter(smtpPass)
    /\ now = 0
    /\ hits = [c \in Clients |-> 0]
    /\ resetTime = [c \in Clients |-> 0]
    /\ nreq = 0
    /\ inflight = <<>>
    /\ last = NoLast
    /\ log = NoLog
    /\ rejected = FALSE
    /\ alive = TRUE
    /\ passed = [c \in Clients |-> <<>>]

Init ==
    /\ smtpPass \in {<<>>, <<"">>, <<"app-password">>}
    /\ smtpUser = <<>>
    /\ Start

RemoveAt(q, i) == SubSeq(q, 1, i - 1) \o SubSeq(q, i + 1, Len(q))

\* a request of client c with body b arrives: the limiter counts it and answers
\* 429 or lets it through to the handler, which runs to its first response,
\* throw, or await
Request(c, b, cap, room) ==
    /\ alive
    /\ nreq < cap
    /\ \E inc \in {increment(hits[c], resetTime[c], now)},
          out \in {contactHandler(b, transporter, smtpUser)} :
       /\ nreq' = nreq + 1
       /\ hits' = [hits EXCEPT ![c] = inc.totalHits]
       /\ resetTime' = [resetTime EXCEPT ![c] = inc.resetTime]
       /\ UNCHANGED <<smtpPass, smtpUser, transporter, now, alive>>
       /\ IF limitReached(inc.totalHits)
          THEN /\ last' = [client |-> c, body |-> b, via |-> "limiter",
                           resp |-> RespLimited, ctype |-> "json", mail |-> <<>>,
                           calls |-> 0]
               /\ UNCHANGED <<inflight, log, rejected, passed>>
          ELSE /\ passed' = [passed EXCEPT ![c] = Append(@, now)]
               /\ CASE out.kind = "respond" ->
                         /\ last' = [client |-> c, body |-> b, via |-> "handler",
                                     resp |-> out.resp, ctype |-> "json", mail |-> <<>>,
                                     calls |-> 0]
                         /\ log' = IF out.log = NoLog THEN log ELSE out.log
                         /\ UNCHANGED <<inflight, rejected>>
                    [] out.kind = "throw" ->
                         /\ last' = [client |-> c, body |-> b, via |-> "throw",
                                     resp |-> NoResp, ctype |-> "", mail |-> <<>>,
                                     calls |-> 0]
                         /\ rejected' = TRUE
                         /\ UNCHANGED <<inflight, log>>
                    [] out.kind = "send" ->
                         /\ Len(inflight) < room
                         /\ inflight' = Append(inflight,
                                [client |-> c, body |-> b, mail |-> out.mail,
                                 calls |-> 1])
                         /\ UNCHANGED <<last, log, rejected>>

\* sendMail resolves: res.json({ ok: true })
SendOk(i) ==
    /\ alive
    /\ inflight' = RemoveAt(inflight, i)
    /\ \E r \in {inflight[i]} :
          last' = [client |-> r.client, body |-> r.body, via |-> "sent", resp |-> RespOk,
                   ctype |-> "json", mail |-> r.mail, calls |-> r.calls]
    /\ UNCHANGED <<smtpPass, smtpUser, transporter, now, hits, resetTime, nreq, log,
                   rejected, alive, passed>>

\* a catch block that passes err.message on to the caller
leakingCatch(err) == Resp(500, FALSE, err, "", 0, <<>>)

\* the response of the catch block
catchResponse(err) == RespSendFailed

\* sendMail rejects with err: the catch block logs err.message and answers 500
SendFail(i, err) ==
    /\ alive
    /\ inflight' = RemoveAt(inflight, i)
    /\ log' = [level |-> "error", text |-> "Email send error:", detail |-> err]
    /\ last' = [client |-> inflight[i].client, body |-> inflight[i].body,
                via |-> "sendfailed", resp |-> catchResponse(err), ctype |-> "json",
                mail |-> inflight[i].mail, calls |-> inflight[i].calls]
    /\ UNCHANGED <<smtpPass, smtpUser, transporter, now, hits, resetTime, nreq,
                   rejected, alive, passed>>

\* an unhandled rejection ends the process (node's default since version 15)
ProcessExit ==
    /\ alive
    /\ rejected
    /\ alive' = FALSE
    /\ rejected' = FALSE
    /\ UNCHANGED <<smtpPass, smtpUser, transporter, now, hits, resetTime, nreq, inflight,
                   last, log, passed>>

\* or the framework hands the rejection to its default error handler, which
\* answers with an HTML error page (express 5), or nothing answers (express 4
\* on an older node): either way the handler has sent no JSON
DefaultErrorHandler ==
    /\ alive
    /\ rejected
    /\ rejected' = FALSE
    /\ last' = [last EXCEPT !.ctype = "html"]
    /\ UNCHANGED <<smtpPass, smtpUser, transporter, now, hits, resetTime, nreq, inflight,
                   log, alive, passed>>

\* time passes
Tick ==
    /\ now + TickMs <= MaxTicks * TickMs
    /\ now' = now + TickMs
    /\ passed' = [c \in Clients |->
                    SelectSeq(passed[c], LAMBDA t : t > now + TickMs - windowMs)]
    /\ UNCHANGED <<smtpPass, smtpUser, transporter, hits, resetTime, nreq, inflight,
                   last, log, rejected, alive>>

Next ==
    \/ \E c \in Clients, b \in ServerBodies : Request(c, b, MaxRequests, MaxInFlight)
    \/ \E i \in 1..Len(inflight) : SendOk(i)
    \/ \E i \in 1..Len(inflight), err \in TransportErrors : SendFail(i, err)
    \/ ProcessExit
    \/ DefaultErrorHandler
    \/ Tick

Spec == Init /\ [][Next]_vars

\* bursts of requests against the limiter, the transport delivering
NextBurst ==
    \/ \E c \in Clients, b \in BurstBodies : Request(c, b, MaxBurst, MaxSuspended)
    \/ \E i \in 1..Len(inflight) : SendOk(i)
    \/ Tick

SpecBurst == Init /\ [][NextBurst]_vars

\* one submission, its body drawn from every combination of field values
InitSubmit ==
    /\ smtpPass \in {<<>>, <<"">>, <<"app-password">>}
    /\ smtpUser \in {<<>>, <<"office@example.com">>}
    /\ Start

Submit == nreq = 0 /\ \E b \in AllBodies : Request("ip1", b, 1, 1)

NextSubmit ==
    \/ Submit
    \/ \E i \in 1..Len(inflight) : SendOk(i)
    \/ \E i \in 1..Len(inflight), err \in TransportErrors : SendFail(i, err)
    \/ ProcessExit
    \/ DefaultErrorHandler

SpecSubmit == InitSubmit /\ [][NextSubmit]_vars

----------------------------------------------------------------------------
(* What the claims speak of *)

\* a request that the limiter let through has been answered by the handler or threw
Handled == last.via \in {"handler", "throw", "sent", "sendfailed"}

\* absent, null, or blank after trimming
ClaimMissing(v) == IsNullish(v) \/ (v.prim /\ StrLen(Trim(v.s)) = 0)

ClaimMissingSet(b) == {k \in {"name", "phone", "caseType"} : ClaimMissing(b[k])}

ClaimLimit(f) ==
    CASE f = "name" -> NameMax
      [] f = "phone" -> PhoneMax
      [] f = "caseType" -> CaseTypeMax
      [] f = "email" -> EmailMax
      [] f = "message" -> MessageMax

\* a string field longer than its maximum, measured on the submitted value
OverLong(b, f) == b[f].t = "string" /\ StrLen(b[f].s) > ClaimLimit(f)

SomeOverLong(b) == \E i \in 1..Len(LimitFields) : OverLong(b, LimitFields[i])

FirstOverLong(b) ==
    CHOOSE i \in 1..Len(LimitFields) :
        OverLong(b, LimitFields[i]) /\ \A j \in 1..(i - 1) : ~OverLong(b, LimitFields[j])

AllowedPhone(s) ==
    \A i \in 1..Len(s) : \A j \in 1..Len(s[i].w) : s[i].w[j] \in PhoneChars

\* a valid submission
ClaimValid(b) ==
    /\ \A k \in {"name", "phone", "caseType"} :
          b[k].t = "string" /\ StrLen(Trim(b[k].s)) > 0 /\ StrLen(b[k].s) <= ClaimLimit(k)
    /\ AllowedPhone(b.phone.s)
    /\ \A k \in {"email", "message"} :
          IsNullish(b[k]) \/ (b[k].t = "string" /\ StrLen(b[k].s) <= ClaimLimit(k))

Entities == {AMP, LT, GT, QUOT}

\* no raw <, > or ", and every & begins an entity
NoRawWord(w) ==
    \A j \in 1..Len(w) :
        /\ w[j] \notin {"<", ">", "\""}
        /\ w[j] = "&" => \E e \in Entities : j + Len(e) - 1 <= Len(w) /\ SubSeq(w, j, j + Len(e) - 1) = e

NoRaw(s) == \A i \in 1..Len(s) : NoRawWord(s[i].w)

\* a word with every <br> taken out
RECURSIVE WithoutBr(_)
WithoutBr(w) ==
    IF w = <<>> THEN <<>>
    ELSE IF Len(w) >= Len(BR) /\ SubSeq(w, 1, Len(BR)) = BR
         THEN WithoutBr(SubSeq(w, Len(BR) + 1, Len(w)))
         ELSE <<w[1]>> \o WithoutBr(Tail(w))

\* the same for the message, whose only markup is <br>
NoRawButBr(s) == \A i \in 1..Len(s) : NoRawWord(WithoutBr(s[i].w))

HasBr(s) ==
    \E i \in 1..Len(s) : \E j \in 1..Len(s[i].w) :
        j + Len(BR) - 1 <= Len(s[i].w) /\ SubSeq(s[i].w, j, j + Len(BR) - 1) = BR

\* the entity of one character
EntityOf(c, nl) ==
    CASE c = "&" -> AMP
      [] c = "<" -> LT
      [] c = ">" -> GT
      [] c = "\"" -> QUOT
      [] c = "\n" -> nl
      [] OTHER -> <<c>>

\* a word with each character replaced by its entity, in one pass
RECURSIVE EntityWord(_, _)
EntityWord(w, nl) == IF w = <<>> THEN <<>> ELSE EntityOf(w[1], nl) \o EntityWord(Tail(w), nl)

\* out is the submitted string in, trimmed, with each character replaced by its
\* entity and each newline by nl
EscapedAs(out, in, nl) ==
    /\ Len(out) = Len(Trim(in))
    /\ \A i \in 1..Len(out) :
          out[i].n = Trim(in)[i].n /\ out[i].w = EntityWord(Trim(in)[i].w, nl)

EscapedFrom(out, in) == EscapedAs(out, in, <<"\n">>)

\* the same, and each newline replaced by <br>
EscapedMessageFrom(out, in) == EscapedAs(out, in, BR)

\* the requests with a message handed to sendMail that the state still knows
MailedBodies == {inflight[i] : i \in 1..Len(inflight)} \cup (IF last.mail = <<>> THEN {} ELSE {last})

\* the passes of client c that fall in its latest limiter window
PassedInWindow(c) == Len(SelectSeq(passed[c], LAMBDA t : t >= resetTime[c] - windowMs))

Min(a, b) == IF a < b THEN a ELSE b

----------------------------------------------------------------------------
(* Claims *)

\* C1 (as stated): a request let through with a required field absent, null or
\* blank is answered 400 "Missing required fields" with exactly the missing names
C1_MissingFieldsListed ==
    (last.via \in {"handler", "throw"} /\ ClaimMissingSet(last.body) # {}) =>
        /\ last.via = "handler"
        /\ last.resp.status = 400
        /\ ~last.resp.ok
        /\ {last.resp.fields[i] : i \in 1..Len(last.resp.fields)} = ClaimMissingSet(last.body)

\* C2 (as stated): every request that reaches the handler gets one JSON response
\* of status 200, 400, 500 or 503; no rejection escapes and the process lives on
C2_AllErrorsCaught ==
    /\ alive
    /\ ~rejected
    /\ Handled => (last.ctype = "json" /\ last.resp.status \in {200, 400, 500, 503})

C4_LimitedBeforeValidation ==
    [][/\ \A c \in Clients :
            (nreq' = nreq + 1 /\ hits'[c] > max /\ hits'[c] # hits[c]) =>
                /\ last'.client = c
                /\ last'.via = "limiter"
                /\ last'.resp = RespLimited
                /\ last'.mail = <<>>
                /\ last'.calls = 0
                /\ inflight' = inflight
                /\ passed' = passed
                /\ log' = log
       /\ \A c \in Clients :
            resetTime'[c] > now' => PassedInWindow(c)' = Min(hits'[c], max)]_vars

\* C4 witness: a sixth request answered 429 while an earlier one of the same
\* client is suspended at the send
C4_Witness ==
    /\ last.via = "limiter"
    /\ hits[last.client] = max + 1
    /\ \E i \in 1..Len(inflight) : inflight[i].client = last.client

\* C5: without the credential the transporter is null, no send is ever attempted,
\* and a valid submission let through is answered 503 "Email not configured"
C5_NoCredentialNoSend ==
    ~EnvSet(smtpPass) =>
        /\ ~transporter
        /\ inflight = <<>>
        /\ last.mail = <<>>
        /\ last.calls = 0
        /\ last.via \notin {"sent", "sendfailed"}
        /\ (Handled /\ ClaimValid(last.body)) => (last.via = "handler" /\ last.resp = RespNotConfigured)

\* C5 witness: a second valid submission answered 503 without the credential
C5_Witness ==
    /\ smtpPass = <<"">>
    /\ nreq >= 2
    /\ ClaimValid(last.body)
    /\ last.resp = RespNotConfigured

\* C6 (as stated): the response belongs to the first failing check in the order
\* presence, length, phone format, transport; nothing is sent after a failed check
C6_FirstFailureWins ==
    (last.via \in {"handler", "throw"}) =>
        IF ClaimMissingSet(last.body) # {}
        THEN last.resp.error = "Missing required fields" /\ last.resp.status = 400
        ELSE IF SomeOverLong(last.body)
        THEN last.resp.error = "exceeds maximum length of" /\ last.resp.status = 400
        ELSE IF last.body.phone.prim /\ ~AllowedPhone(last.body.phone.s)
        THEN last.resp = RespPhone
        ELSE ~transporter => last.resp = RespNotConfigured

Unconvertible(b, i) ==
    \/ \E k \in {"name", "phone", "caseType"} : ~b[k].prim
    \/ \E j \in 1..(i - 1) : ~b[LimitFields[j]].prim

C8_MailEscaped ==
    \A r \in MailedBodies :
        LET h == r.mail[1].html
            b == r.body
        IN /\ NoRaw(h.name) /\ EscapedFrom(h.name, b.name.s)
           /\ NoRaw(h.phone) /\ EscapedFrom(h.phone, b.phone.s)
           /\ NoRaw(h.caseType) /\ EscapedFrom(h.caseType, b.caseType.s)
           /\ NoRaw(h.email)
           /\ Truthy(b.email) => EscapedFrom(h.email, b.email.s)
           /\ NoRawButBr(h.message)
           /\ ~IsNullish(b.message) => EscapedMessageFrom(h.message, b.message.s)
           /\ NoRaw(r.mail[1].subject.name) /\ NoRaw(r.mail[1].subject.caseType)

\* C8 witness: name "<script>" mailed as &lt;script&gt;, the message with a <br>
C8_Witness ==
    /\ last.via = "sent"
    /\ last.body.name = Chars(<<"<", "s", "c", "r", "i", "p", "t", ">">>)
    /\ Expand(last.mail[1].html.name) =
          <<"&", "l", "t", ";", "s", "c", "r", "i", "p", "t", "&", "g", "t", ";">>
    /\ HasBr(last.mail[1].html.message)

\* C9: a failed send is answered with the fixed 500 body whatever the error,
\* the error goes to the log, and the process and its other requests go on
C9_SendFailureGeneric ==
    [][(Len(inflight') < Len(inflight) /\ last'.via = "sendfailed") =>
          /\ last'.resp = RespSendFailed
          /\ last'.ctype = "json"
          /\ log'.level = "error"
          /\ log'.detail \in TransportErrors
          /\ alive' /\ rejected' = rejected
          /\ nreq' = nreq /\ hits' = hits]_vars

\* C9 witness: a request answered 200 after another's send had failed
C9_Witness ==
    /\ last.via = "sent"
    /\ log.level = "error"
    /\ log.detail = "Invalid login"

\* C10: status 200 is sent only as {ok:true}, to a valid submission, after that
\* request's one sendMail call to the fixed recipient has resolved; a valid
\* submission let through with the transport configured is sent, not answered early
C10_OkOnlyAfterSend ==
    /\ last.resp.status = 200 =>
          /\ last.via = "sent"
          /\ last.resp = RespOk
          /\ last.ctype = "json"
          /\ last.calls = 1
          /\ Len(last.mail) = 1
          /\ last.mail[1].to = "pardooren@gmail.com"
          /\ ClaimValid(last.body)
          /\ transporter
    /\ last.via = "sent" => last.resp = RespOk
    /\ (last.via \in {"handler", "throw"} /\ transporter) => ~ClaimValid(last.body)
    /\ \A i \in 1..Len(inflight) : ClaimValid(inflight[i].body) /\ inflight[i].calls = 1

\* C10 witness: a valid submission with email and message answered 200
C10_Witness ==
    /\ last.via = "sent"
    /\ last.resp = RespOk
    /\ last.body.email = Chars(<<"a", "@", "b">>)
    /\ ~IsNullish(last.body.message)

====
